---- MODULE Spec2Model ----
(***************************************************************************)
(* Token lifecycle of gbdx/gbdx_auth.py: get_session, session_from_envvars, *)
(* session_from_config (with its save_token closure), configure, and the    *)
(* request path of the OAuth2 session the module configures.                *)
(*                                                                          *)
(* Time is counted in ticks, TicksPerSecond ticks to the second, because    *)
(* time.time() and the stored expires_at are floats while the OAuth client  *)
(* keeps its expiry as int(expires_at).  Texts whose characters matter      *)
(* (keys, tokens) are sequences of one-character strings.                   *)
(***************************************************************************)
EXTENDS Integers, Sequences, FiniteSets, TLC

VARIABLES
    now,        \* the clock, in ticks
    environ,    \* os.environ restricted to the four GBDX_* names
    files,      \* the file system: path -> contents
    sessions,   \* the caller's session variables: id -> Session or NoSession
    last,       \* what the last call did: operation, outcome, event log
    calls       \* the number of calls made so far

vars == <<now, environ, files, sessions, last, calls>>

----------------------------------------------------------------------------
(* Bounds of the model *)

TicksPerSecond == 2

StartTime == 100000

MaxTicks == 1

MaxCalls == 3

MaxSessions == 1

(* The longest combined API key, in characters *)
MaxKeyLen == 4

(* The buffer subtracted from the stored expiry, in seconds *)
Margin == 600

----------------------------------------------------------------------------
(* Texts *)

RECURSIVE Join(_, _)
Join(parts, sep) ==
    IF parts = <<>> THEN <<>>
    ELSE IF Len(parts) = 1 THEN parts[1]
    ELSE parts[1] \o sep \o Join(Tail(parts), sep)

(* "{}:{}".format(a, b) *)
Colon(a, b) == a \o <<":">> \o b

(* base64.b64encode: an injective encoding, never equal to its argument *)
b64encode(text) == <<"b64[">> \o text \o <<"]">>

(* str.split(sep): the segments between the occurrences of sep *)
RECURSIVE split(_, _)
split(text, sep) ==
    IF \A i \in 1..Len(text) : text[i] # sep THEN <<text>>
    ELSE LET i == CHOOSE k \in 1..Len(text) :
                      text[k] = sep /\ \A j \in 1..(k - 1) : text[j] # sep
         IN  <<SubSeq(text, 1, i - 1)>> \o split(SubSeq(text, i + 1, Len(text)), sep)

(* int(x) for x in ticks: whole seconds, truncated toward zero *)
int(ticks) ==
    IF ticks >= 0 THEN ticks \div TicksPerSecond
    ELSE -((-ticks) \div TicksPerSecond)

(* A ';' that follows a space starts an inline comment when the ini file is read *)
HasInlineComment(text) ==
    \E i \in 2..Len(text) : text[i] = ";" /\ text[i - 1] = " "

(* "%(" makes ConfigParser.get interpolate the value *)
HasInterpolation(text) ==
    \E i \in 1..(Len(text) - 1) : text[i] = "%" /\ text[i + 1] = "("

----------------------------------------------------------------------------
(* Paths, environment, credentials *)

NoPath == "None"
EmptyPath == ""
DefaultPath == "~/.gbdx-config"
CustomPath == "custom.ini"
Paths == {DefaultPath, CustomPath}

GBDX_AUTH_URL == <<"u","r","l">>

environ_template ==
    << <<"username", "GBDX_USERNAME">>,
       <<"password", "GBDX_PASSWORD">>,
       <<"client_id", "GBDX_CLIENT_ID">>,
       <<"client_secret", "GBDX_CLIENT_SECRET">> >>

EnvNames == {environ_template[i][2] : i \in 1..Len(environ_template)}

(* The process environments considered: all four set, one missing *)
FullEnviron ==
    [n \in EnvNames |-> <<"e">>]

Environments ==
    { FullEnviron,
      [n \in EnvNames \ {"GBDX_CLIENT_SECRET"} |-> <<"e">>] }

(* The [gbdx] sections considered *)
CredsA ==
    [auth_url |-> GBDX_AUTH_URL, user_name |-> <<"a">>, user_password |-> <<"p">>,
     client_id |-> <<"i","d">>, client_secret |-> <<"s",":","c">>]

CredsB ==
    [auth_url |-> GBDX_AUTH_URL, user_name |-> <<"b">>, user_password |-> <<"q">>,
     client_id |-> <<"i","2">>, client_secret |-> <<"s","2">>]

ApiKeyCreds ==
    [auth_url |-> GBDX_AUTH_URL, user_name |-> <<"a">>, user_password |-> <<"p">>,
     api_key |-> <<"i","d",":","s",":","c">>]

NoKeyCreds ==
    [auth_url |-> GBDX_AUTH_URL, user_name |-> <<"a">>, user_password |-> <<"p">>]

----------------------------------------------------------------------------
(* Tokens and the auth server's answers *)

Rejected == [accepted |-> FALSE]

Granted(access, refresh, expires_in) ==
    [accepted |-> TRUE, access_token |-> access, refresh_token |-> refresh,
     expires_in |-> expires_in]

(* What the auth server may answer to the grant exchange of the environment *)
(* path, whose token is never written to a file: a token that is good until *)
(* the clock next moves, so that its refresh is within reach                *)
EnvResponses ==
    { Rejected, Granted(<<"t","1">>, <<"r","1">>, 0) }

(* The answers without characters of the ini file format *)
PlainResponses ==
    { Rejected, Granted(<<"t","1">>, <<"r","1">>, 3600) }

(* What the auth server may answer to a grant or refresh exchange.  Two of  *)
(* the access tokens carry characters the ini file format gives a meaning.  *)
Responses ==
    { Rejected,
      Granted(<<"t","1">>, <<"r","1">>, 3600),
      Granted(<<"t"," ",";">>, <<"r","1">>, 3600),
      Granted(<<"%","(","t",")","s">>, <<"r","1">>, 3600) }

(* parse_token_response: the token dict, expires_at = time.time() + int(expires_in) *)
parse_token(response, t) ==
    [access_token |-> response.access_token,
     refresh_token |-> response.refresh_token,
     expires_in |-> response.expires_in,
     expires_at |-> t + response.expires_in * TicksPerSecond]

(* json.dumps / json.loads: the text of a token, and whether a reader of the *)
(* ini file cut it short                                                     *)
dumps(token) == [of |-> token, cut |-> FALSE]

loads(text) ==
    IF text.cut THEN [ok |-> FALSE, err |-> "ValueError"]
    ELSE [ok |-> TRUE, val |-> text.of]

(* A token an earlier process left in the file; d ticks off the margin *)
StoredToken(d) ==
    [access_token |-> <<"t","0">>, refresh_token |-> <<"r","0">>, expires_in |-> 3600,
     expires_at |-> (StartTime + Margin) * TicksPerSecond + d]

StoredOffsets == {-TicksPerSecond, -1, 3000 * TicksPerSecond}

----------------------------------------------------------------------------
(* Files *)

NoFile == [kind |-> "absent"]
Garbage == [kind |-> "garbage"]
IniFile(cfg) == [kind |-> "ini", cfg |-> cfg]

WithToken(creds, token) == [gbdx |-> creds, gbdx_token |-> [json |-> dumps(token)]]

InitialCustomFiles ==
    { NoFile, Garbage,
      IniFile([gbdx |-> CredsA]), IniFile([gbdx |-> ApiKeyCreds]),
      IniFile([gbdx |-> NoKeyCreds]) }
    \cup { IniFile(WithToken(CredsA, StoredToken(d))) : d \in StoredOffsets }

InitialDefaultFiles ==
    { NoFile, IniFile([gbdx |-> CredsA]) }

(* os.path.isfile *)
isfile(fs, path) == fs[path].kind # "absent"

Ok(v) == [ok |-> TRUE, val |-> v]
Err(e) == [ok |-> FALSE, err |-> e]

(* ConfigParser.read: no file gives an empty list (RuntimeError at line 57), *)
(* a file that is no ini file raises, and an option value is cut at the      *)
(* first " ;"                                                                *)
cfg_read(fs, path) ==
    LET f == fs[path] IN
    IF f.kind = "absent" THEN Err("RuntimeError")
    ELSE IF f.kind = "garbage" THEN Err("ParsingError")
    ELSE Ok([s \in DOMAIN f.cfg |->
                IF s = "gbdx_token"
                THEN [o \in DOMAIN f.cfg[s] |->
                        [f.cfg[s][o] EXCEPT !.cut =
                            @ \/ HasInlineComment(f.cfg[s][o].of.access_token)]]
                ELSE f.cfg[s]])

(* ConfigParser.get *)
cfg_get(cfg, section, option) ==
    IF section \notin DOMAIN cfg THEN Err("NoSectionError")
    ELSE IF option \notin DOMAIN cfg[section] THEN Err("NoOptionError")
    ELSE IF section = "gbdx_token"
            /\ ~cfg[section][option].cut
            /\ HasInterpolation(cfg[section][option].of.access_token)
         THEN Err("InterpolationError")
    ELSE Ok(cfg[section][option])

----------------------------------------------------------------------------
(* Sessions *)

NoSession == [kind |-> "none"]

(* An OAuth2Session with its LegacyApplicationClient.  token is session.token; *)
(* access_token and _expires_at are the client's attributes (an _expires_at of *)
(* 0 is falsy: the client then skips its expiry test); cfg and config_file are *)
(* what the save_token closure captured; stored tells that token is still the  *)
(* record read from the file.                                                  *)
Session(kind, config_file, cfg, client_id, client_secret, auth_url, token, stored) ==
    [kind |-> kind, config_file |-> config_file, cfg |-> cfg,
     client_id |-> client_id, client_secret |-> client_secret,
     auto_refresh_url |-> auth_url,
     token |-> token,
     access_token |-> token.access_token,
     _expires_at |-> int(token.expires_at),
     stored |-> stored]

(* The events of a call, in order *)
EvEnviron == [e |-> "environ"]
EvIsFile(path) == [e |-> "isfile", path |-> path]
EvRead(path) == [e |-> "read", path |-> path]
EvWrite(path, section) == [e |-> "write", path |-> path, section |-> section]
EvGrant(src, auth, ok) == [e |-> "grant", src |-> src, auth |-> auth, ok |-> ok]
EvRefresh(ok) == [e |-> "refresh", ok |-> ok]
EvUpdater(token) == [e |-> "token_updater", token |-> token]
EvRequest(access, stored) == [e |-> "request", access_token |-> access, stored |-> stored]

(* How a call ends: a returned session or a raised exception, with the file   *)
(* system it leaves and the events it produced                                *)
Returned(s, fs, events) ==
    [result |-> "session", err |-> "", session |-> s, files |-> fs, events |-> events]

Raised(err, fs, events) ==
    [result |-> "raise", err |-> err, session |-> NoSession, files |-> fs,
     events |-> events]

(* _unpack_apikey *)
(* _unpack_apikey unpacking the first two segments only *)
_unpack_apikey_two_parts(apikey) ==
    LET tmp == split(apikey, ":")
    IN  [client_id |-> tmp[1],
         client_secret |-> IF Len(tmp) > 1 THEN tmp[2] ELSE <<>>]

_unpack_apikey(apikey) ==
    LET tmp == split(apikey, ":")
    IN  [client_id |-> tmp[1], client_secret |-> Join(Tail(tmp), <<":">>)]

(* session_from_config, lines 59-66: client_id, client_secret and api_key *)
credentials(cfg) ==
    LET id == cfg_get(cfg, "gbdx", "client_id")
        secret == cfg_get(cfg, "gbdx", "client_secret")
        first == IF ~id.ok THEN id.err ELSE secret.err
    IN  IF id.ok /\ secret.ok
        THEN Ok([client_id |-> id.val, client_secret |-> secret.val,
                 api_key |-> b64encode(Colon(id.val, secret.val))])
        ELSE IF first = "NoOptionError"
        THEN LET key == cfg_get(cfg, "gbdx", "api_key")
             IN  IF ~key.ok THEN Err(key.err)
                 ELSE Ok([client_id |-> _unpack_apikey(key.val).client_id,
                          client_secret |-> _unpack_apikey(key.val).client_secret,
                          api_key |-> key.val])
        ELSE Err(first)

(* save_token writing a parser of its own that holds the token section alone *)
save_token_token_only(cfg, config_file, fs, token_to_save) ==
    LET new == "gbdx_token" :> ("json" :> dumps(token_to_save))
    IN  [cfg |-> new, files |-> [fs EXCEPT ![config_file] = IniFile(new)]]

(* save_token with the cfg.write forgotten: the token stays in memory *)
save_token_without_write(cfg, config_file, fs, token_to_save) ==
    LET old == IF "gbdx_token" \in DOMAIN cfg THEN cfg["gbdx_token"] ELSE <<>>
        new == ("gbdx_token" :> (("json" :> dumps(token_to_save)) @@ old)) @@ cfg
    IN  [cfg |-> new, files |-> fs]

(* save_token updating the access token of the record the parser holds and *)
(* leaving the record's other fields as they were                          *)
save_token_access_only(cfg, config_file, fs, token_to_save) ==
    LET old == IF "gbdx_token" \in DOMAIN cfg THEN cfg["gbdx_token"] ELSE <<>>
        record == IF "json" \in DOMAIN old
                  THEN [old["json"].of EXCEPT !.access_token = token_to_save.access_token]
                  ELSE token_to_save
        new == ("gbdx_token" :> (("json" :> dumps(record)) @@ old)) @@ cfg
    IN  [cfg |-> new, files |-> [fs EXCEPT ![config_file] = IniFile(new)]]

(* save_token keeping the record it replaces under a second option *)
save_token_keeping_previous(cfg, config_file, fs, token_to_save) ==
    LET old == IF "gbdx_token" \in DOMAIN cfg THEN cfg["gbdx_token"] ELSE <<>>
        kept == IF "json" \in DOMAIN old THEN "previous" :> old["json"] ELSE <<>>
        new == ("gbdx_token" :> (("json" :> dumps(token_to_save)) @@ kept @@ old)) @@ cfg
    IN  [cfg |-> new, files |-> [fs EXCEPT ![config_file] = IniFile(new)]]

(* save_token of session_from_config: the captured cfg with the token section *)
(* set, and the file system after cfg.write                                   *)
save_token(cfg, config_file, fs, token_to_save) ==
    LET old == IF "gbdx_token" \in DOMAIN cfg THEN cfg["gbdx_token"] ELSE <<>>
        new == ("gbdx_token" :> (("json" :> dumps(token_to_save)) @@ old)) @@ cfg
    IN  [cfg |-> new, files |-> [fs EXCEPT ![config_file] = IniFile(new)]]

(* from_stored_token with the margin forgotten *)
from_stored_token_without_margin(config_file, cfg, cr, fs, t, events) ==
    LET text == cfg_get(cfg, "gbdx_token", "json")
        url == cfg_get(cfg, "gbdx", "auth_url")
    IN  IF ~text.ok THEN Raised(text.err, fs, events)
        ELSE IF ~loads(text.val).ok THEN Raised(loads(text.val).err, fs, events)
        ELSE IF ~url.ok THEN Raised(url.err, fs, events)
        ELSE LET token == [loads(text.val).val EXCEPT !.expires_at = @ - t]
             IN  Returned(Session("config", config_file, cfg, cr.client_id,
                                  cr.client_secret, url.val, token, TRUE),
                          fs, events)

(* session_from_config, lines 69-84: the session rebuilt from the stored token *)
from_stored_token(config_file, cfg, cr, fs, t, events) ==
    LET text == cfg_get(cfg, "gbdx_token", "json")
        url == cfg_get(cfg, "gbdx", "auth_url")
    IN  IF ~text.ok THEN Raised(text.err, fs, events)
        ELSE IF ~loads(text.val).ok THEN Raised(loads(text.val).err, fs, events)
        ELSE IF ~url.ok THEN Raised(url.err, fs, events)
        ELSE LET token == [loads(text.val).val EXCEPT !.expires_at =
                              (@ - t) - Margin * TicksPerSecond]
             IN  Returned(Session("config", config_file, cfg, cr.client_id,
                                  cr.client_secret, url.val, token, TRUE),
                          fs, events)

(* What line 118 does after the fresh grant: s was never bound on this path *)
return_s(sess, fs, events) == Raised("UnboundLocalError", fs, events)

(* session_from_config, lines 85-100 and 118: the fresh grant *)
from_fresh_grant(config_file, cfg, cr, fs, t, response, events) ==
    LET url == cfg_get(cfg, "gbdx", "auth_url")
        user == cfg_get(cfg, "gbdx", "user_name")
        password == cfg_get(cfg, "gbdx", "user_password")
    IN  IF ~url.ok THEN Raised(url.err, fs, events)
        ELSE IF ~user.ok THEN Raised(user.err, fs, events)
        ELSE IF ~password.ok THEN Raised(password.err, fs, events)
        ELSE IF ~response.accepted
        THEN Raised("OAuth2Error", fs, events \o <<EvGrant("file", cr.api_key, FALSE)>>)
        ELSE LET token == parse_token(response, t)
                 saved == save_token(cfg, config_file, fs, token)
                 sess == Session("config", config_file, saved.cfg, cr.client_id,
                                 cr.client_secret, url.val, token, FALSE)
             IN  return_s(sess, saved.files,
                          events \o <<EvGrant("file", cr.api_key, TRUE),
                                      EvWrite(config_file, "gbdx_token")>>)

(* session_from_config with the stored token ignored: a grant every time *)
session_from_config_always_grant(config_file, fs, t, response) ==
    LET events == <<EvRead(config_file)>>
        rd == cfg_read(fs, config_file)
    IN  IF ~rd.ok THEN Raised(rd.err, fs, events)
        ELSE IF ~credentials(rd.val).ok THEN Raised(credentials(rd.val).err, fs, events)
        ELSE from_fresh_grant(config_file, rd.val, credentials(rd.val).val, fs, t,
                              response, events)

(* session_from_config *)
session_from_config(config_file, fs, t, response) ==
    LET events == <<EvRead(config_file)>>
        rd == cfg_read(fs, config_file)
    IN  IF ~rd.ok THEN Raised(rd.err, fs, events)
        ELSE IF ~credentials(rd.val).ok THEN Raised(credentials(rd.val).err, fs, events)
        ELSE IF "gbdx_token" \in DOMAIN rd.val
        THEN from_stored_token(config_file, rd.val, credentials(rd.val).val, fs, t, events)
        ELSE from_fresh_grant(config_file, rd.val, credentials(rd.val).val, fs, t,
                              response, events)

(* session_from_envvars *)
session_from_envvars(env, t, response) ==
    IF \E i \in 1..Len(environ_template) : environ_template[i][2] \notin DOMAIN env
    THEN [result |-> "raise", err |-> "KeyError", session |-> NoSession,
          events |-> <<EvEnviron>>]
    ELSE IF ~response.accepted
    THEN [result |-> "raise", err |-> "OAuth2Error", session |-> NoSession,
          events |-> <<EvEnviron, EvGrant("env", <<>>, FALSE)>>]
    ELSE [result |-> "session", err |-> "",
          session |-> Session("env", NoPath, <<>>, env["GBDX_CLIENT_ID"],
                              env["GBDX_CLIENT_SECRET"], GBDX_AUTH_URL,
                              parse_token(response, t), FALSE),
          events |-> <<EvEnviron, EvGrant("env", <<>>, TRUE)>>]

(* get_session trying the environment first whatever the argument *)
get_session_environment_first(config_file, env, fs, t, envResponse, fileResponse) ==
    LET e == session_from_envvars(env, t, envResponse)
        path == IF config_file \in {NoPath, EmptyPath} THEN DefaultPath ELSE config_file
    IN  IF e.result = "session" THEN Returned(e.session, fs, e.events)
        ELSE IF isfile(fs, path)
        THEN LET c == session_from_config(path, fs, t, fileResponse)
             IN  [c EXCEPT !.events = e.events \o <<EvIsFile(path)>> \o @]
        ELSE Raised(e.err, fs, e.events \o <<EvIsFile(path)>>)

(* get_session handing the default path to session_from_config without the  *)
(* isfile test                                                               *)
get_session_without_isfile(config_file, env, fs, t, envResponse, fileResponse) ==
    IF config_file \in {NoPath, EmptyPath}
    THEN LET e == session_from_envvars(env, t, envResponse)
         IN  IF e.result = "session" THEN Returned(e.session, fs, e.events)
             ELSE LET c == session_from_config(DefaultPath, fs, t, fileResponse)
                  IN  [c EXCEPT !.events = e.events \o <<EvIsFile(DefaultPath)>> \o @]
    ELSE session_from_config(config_file, fs, t, fileResponse)

(* get_session; envResponse and fileResponse are the auth server's answers to *)
(* the grant exchange of either path                                          *)
get_session(config_file, env, fs, t, envResponse, fileResponse) ==
    IF config_file \in {NoPath, EmptyPath}
    THEN LET e == session_from_envvars(env, t, envResponse)
         IN  IF e.result = "session" THEN Returned(e.session, fs, e.events)
             ELSE IF isfile(fs, DefaultPath)
             THEN LET c == session_from_config(DefaultPath, fs, t, fileResponse)
                  IN  [c EXCEPT !.events = e.events \o <<EvIsFile(DefaultPath)>> \o @]
             ELSE Raised(e.err, fs, e.events \o <<EvIsFile(DefaultPath)>>)
    ELSE session_from_config(config_file, fs, t, fileResponse)

----------------------------------------------------------------------------
(* A request on a session: OAuth2Session.request with auto refresh *)

Sent(s, fs, events) ==
    [result |-> "response", err |-> "", session |-> s, files |-> fs, events |-> events]

Failed(err, s, fs, events) ==
    [result |-> "raise", err |-> err, session |-> s, files |-> fs, events |-> events]

(* Client.add_token's test: a set expiry that lies before time.time() *)
expired(s, t) == s._expires_at # 0 /\ s._expires_at * TicksPerSecond < t

(* OAuth2Session.refresh_token: the session and its client take the new token *)
refresh_token(s, response, t) ==
    [s EXCEPT !.token = parse_token(response, t),
              !.access_token = response.access_token,
              !._expires_at = int(parse_token(response, t).expires_at),
              !.stored = FALSE]

(* token_updater with the closure of session_from_envvars saving the token *)
(* to the default config file as well                                      *)
token_updater_saving_to_default(s, fs, token) ==
    IF s.kind = "config"
    THEN LET saved == save_token(s.cfg, s.config_file, fs, token)
         IN  [session |-> [s EXCEPT !.cfg = saved.cfg], files |-> saved.files,
              events |-> <<EvUpdater(token), EvWrite(s.config_file, "gbdx_token")>>]
    ELSE [session |-> [s EXCEPT !.token = token],
          files |-> save_token(<<>>, DefaultPath, fs, token).files,
          events |-> <<EvUpdater(token)>>]

(* token_updater: the save_token closure of either constructor *)
token_updater(s, fs, token) ==
    IF s.kind = "config"
    THEN LET saved == save_token(s.cfg, s.config_file, fs, token)
         IN  [session |-> [s EXCEPT !.cfg = saved.cfg], files |-> saved.files,
              events |-> <<EvUpdater(token), EvWrite(s.config_file, "gbdx_token")>>]
    ELSE [session |-> [s EXCEPT !.token = token], files |-> fs,
          events |-> <<EvUpdater(token)>>]

(* request with the token updater run even when the refresh was rejected *)
request_saving_on_rejection(s, fs, t, response) ==
    IF ~expired(s, t)
    THEN Sent(s, fs, <<EvRequest(s.access_token, s.stored)>>)
    ELSE IF ~response.accepted
    THEN LET u == token_updater(s, fs, s.token)
         IN  Failed("OAuth2Error", u.session, u.files, <<EvRefresh(FALSE)>> \o u.events)
    ELSE LET r == refresh_token(s, response, t)
             u == token_updater(r, fs, r.token)
         IN  Sent(u.session, u.files,
                  <<EvRefresh(TRUE)>> \o u.events
                      \o <<EvRequest(u.session.access_token, u.session.stored)>>)

(* request with the request sent again before the new token is handed to *)
(* the token updater                                                     *)
request_sending_before_save(s, fs, t, response) ==
    IF ~expired(s, t)
    THEN Sent(s, fs, <<EvRequest(s.access_token, s.stored)>>)
    ELSE IF ~response.accepted
    THEN Failed("OAuth2Error", s, fs, <<EvRefresh(FALSE)>>)
    ELSE LET r == refresh_token(s, response, t)
             u == token_updater(r, fs, r.token)
         IN  Sent(u.session, u.files,
                  <<EvRefresh(TRUE), EvRequest(r.access_token, r.stored)>> \o u.events)

(* session.get / session.post: add the token, refreshing it first when the   *)
(* client finds it expired, then send                                         *)
request(s, fs, t, response) ==
    IF ~expired(s, t)
    THEN Sent(s, fs, <<EvRequest(s.access_token, s.stored)>>)
    ELSE IF ~response.accepted
    THEN Failed("OAuth2Error", s, fs, <<EvRefresh(FALSE)>>)
    ELSE LET r == refresh_token(s, response, t)
             u == token_updater(r, fs, r.token)
         IN  IF expired(u.session, t)
             THEN Failed("TokenExpiredError", u.session, u.files,
                         <<EvRefresh(TRUE)>> \o u.events)
             ELSE Sent(u.session, u.files,
                       <<EvRefresh(TRUE)>> \o u.events
                           \o <<EvRequest(u.session.access_token, u.session.stored)>>)

(* configure: a new file holding the [gbdx] section only *)
configure(config_file, fs, answers) ==
    [fs EXCEPT ![IF config_file \in {NoPath, EmptyPath} THEN DefaultPath
                 ELSE config_file] =
        IniFile([gbdx |-> [auth_url |-> GBDX_AUTH_URL,
                           user_name |-> answers.user_name,
                           user_password |-> answers.user_password,
                           client_id |-> answers.client_id,
                           client_secret |-> answers.client_secret]])]

----------------------------------------------------------------------------
(* The state machine *)

SessionIds == 1..MaxSessions

ConfigFileArgs == {NoPath, CustomPath}

Call(op, arg, sid, r) ==
    [op |-> op, arg |-> arg, sid |-> sid, at |-> now, result |-> r.result,
     err |-> r.err, events |-> r.events]

Init ==
    /\ now = StartTime * TicksPerSecond
    /\ environ \in Environments
    /\ \E c \in InitialCustomFiles, d \in InitialDefaultFiles :
          files = [p \in Paths |-> IF p = CustomPath THEN c ELSE d]
    /\ sessions = [i \in SessionIds |-> NoSession]
    /\ last = [op |-> "none", arg |-> NoPath, sid |-> 0, at |-> now, result |-> "",
               err |-> "", events |-> <<>>]
    /\ calls = 0

(* s = get_session(config_file) *)
GetSession(sid, config_file, envResponse, fileResponse) ==
    LET r == get_session(config_file, environ, files, now, envResponse, fileResponse)
    IN  /\ calls < MaxCalls
        /\ calls' = calls + 1
        /\ sessions' = IF r.result = "session"
                       THEN [sessions EXCEPT ![sid] = r.session]
                       ELSE sessions
        /\ files' = r.files
        /\ last' = Call("get_session", config_file, sid, r)
        /\ UNCHANGED <<now, environ>>

(* s.get(url) or s.post(url, data) *)
Request(sid, response) ==
    /\ calls < MaxCalls
    /\ calls' = calls + 1
    /\ sessions[sid] # NoSession
    /\ LET r == request(sessions[sid], files, now, response)
       IN  /\ sessions' = [sessions EXCEPT ![sid] = r.session]
           /\ files' = r.files
           /\ last' = Call("request", NoPath, sid, r)
    /\ UNCHANGED <<now, environ>>

(* configure(config_file) with the answers typed at the prompts *)
Configure(config_file, answers) ==
    /\ calls < MaxCalls
    /\ calls' = calls + 1
    /\ files' = configure(config_file, files, answers)
    /\ last' = [op |-> "configure", arg |-> config_file, sid |-> 0, at |-> now,
                result |-> "", err |-> "", events |-> <<>>]
    /\ UNCHANGED <<now, environ, sessions>>

(* Time passes *)
Tick ==
    /\ now < StartTime * TicksPerSecond + MaxTicks
    /\ now' = now + 1
    /\ UNCHANGED <<environ, files, sessions, last, calls>>

(* The auth server answers only the exchanges a call performs: an answer no *)
(* exchange asks for is fixed, so that it is not enumerated in vain          *)
Asks(events, src) ==
    \E i \in 1..Len(events) : events[i].e = "grant" /\ events[i].src = src

EnvAnswers(config_file) ==
    IF Asks(get_session(config_file, environ, files, now, Rejected, Rejected).events,
            "env")
    THEN EnvResponses ELSE {Rejected}

FileAnswers(config_file, envResponse) ==
    IF Asks(get_session(config_file, environ, files, now, envResponse, Rejected).events,
            "file")
    THEN Responses ELSE {Rejected}

RefreshAnswers(sid) ==
    IF sessions[sid] # NoSession /\ expired(sessions[sid], now)
    THEN IF sessions[sid].kind = "config" THEN Responses ELSE PlainResponses
    ELSE {Rejected}

(* The caller's variables a new session may be assigned to: one that holds *)
(* a session, or the first that holds none                                 *)
AssignableIds ==
    {i \in SessionIds : \A j \in SessionIds : j < i => sessions[j] # NoSession}

GetSessionStep ==
    \E sid \in AssignableIds, config_file \in ConfigFileArgs :
      \E envResponse \in EnvAnswers(config_file) :
        \E fileResponse \in FileAnswers(config_file, envResponse) :
          GetSession(sid, config_file, envResponse, fileResponse)

RequestStep ==
    \E sid \in SessionIds : \E response \in RefreshAnswers(sid) :
      Request(sid, response)

ConfigureStep ==
    \E config_file \in {NoPath, CustomPath}, answers \in {CredsB} :
      Configure(config_file, answers)

Next ==
    \/ GetSessionStep
    \/ RequestStep
    \/ ConfigureStep
    \/ Tick

Spec == Init /\ [][Next]_vars

----------------------------------------------------------------------------
(* Reading the event log of a call *)

Grants(events) == {i \in 1..Len(events) : events[i].e = "grant"}

FileGrants(events) ==
    {i \in 1..Len(events) : events[i].e = "grant" /\ events[i].src = "file"}

Exchanges(events) == {i \in 1..Len(events) : events[i].e \in {"grant", "refresh"}}

RejectedExchanges(events) == {i \in Exchanges(events) : ~events[i].ok}

Writes(events) == {i \in 1..Len(events) : events[i].e = "write"}

Reads(events) == {i \in 1..Len(events) : events[i].e = "read"}

(* The steps that are a call of the given operation *)
IsCall(op) == calls' = calls + 1 /\ last'.op = op

(* The sections of a parsed file other than the token section *)
OtherSections(cfg) == [s \in DOMAIN cfg \ {"gbdx_token"} |-> cfg[s]]

(* An ini file with the options a grant needs and no token section *)
ValidNoToken(f) ==
    /\ f.kind = "ini"
    /\ "gbdx_token" \notin DOMAIN f.cfg
    /\ credentials(f.cfg).ok
    /\ \A o \in {"auth_url", "user_name", "user_password"} : cfg_get(f.cfg, "gbdx", o).ok

----------------------------------------------------------------------------
(* C1: when an acquisition runs against a config file that has valid        *)
(* credentials and no token section and the auth server rejects nothing,    *)
(* the whole get_session call performs exactly one grant exchange and       *)
(* exactly one write, which puts the token section into that file; the     *)
(* config path itself never performs more than that one grant.              *)
C1_OneGrantOneWrite ==
    [][\A p \in Paths :
          ( /\ IsCall("get_session")
            /\ \E i \in Reads(last'.events) : last'.events[i].path = p
            /\ ValidNoToken(files[p])
            /\ \A i \in FileGrants(last'.events) : last'.events[i].ok )
          => /\ Cardinality(FileGrants(last'.events)) = 1
             /\ Cardinality(Writes(last'.events)) = 1
             /\ \A i \in Writes(last'.events) :
                    last'.events[i] = EvWrite(p, "gbdx_token")
             /\ files'[p].kind = "ini" /\ "gbdx_token" \in DOMAIN files'[p].cfg
             /\ (RejectedExchanges(last'.events) = {}
                    => Cardinality(Grants(last'.events)) = 1)]_vars

(* C1's case: a variable is missing from the environment, the default file  *)
(* had credentials and no token, and the grant was accepted                 *)
C1_Witness ==
    /\ last.op = "get_session" /\ last.arg = NoPath
    /\ environ # FullEnviron
    /\ \E i \in FileGrants(last.events) : last.events[i].ok
    /\ \E i \in Writes(last.events) : last.events[i].path = DefaultPath
    /\ "gbdx_token" \in DOMAIN files[DefaultPath].cfg

(* C2: after an accepted fresh grant exchange session_from_config returns a *)
(* Session, and that Session holds the newly granted token record.          *)
C2_FreshGrantReturnsSession ==
    ( /\ last.op = "get_session"
      /\ \E i \in FileGrants(last.events) : last.events[i].ok )
    => /\ last.result = "session"
       /\ sessions[last.sid].kind = "config"
       /\ ~sessions[last.sid].stored

(* The token record a file holds in its token section *)
HasStoredToken(f) ==
    f.kind = "ini" /\ "gbdx_token" \in DOMAIN f.cfg /\ "json" \in DOMAIN f.cfg["gbdx_token"]

FileToken(f) == f.cfg["gbdx_token"]["json"].of

(* C3: when the file read holds a token record whose expires_at lies more   *)
(* than the margin in the future, session_from_config performs no grant and *)
(* no refresh exchange, writes nothing, and the session it returns is bound *)
(* to the stored record.                                                    *)
C3_StoredTokenNoNetwork ==
    [][\A p \in Paths :
          ( /\ IsCall("get_session")
            /\ \E i \in Reads(last'.events) : last'.events[i].path = p
            /\ HasStoredToken(files[p])
            /\ FileToken(files[p]).expires_at - Margin * TicksPerSecond > now )
          => /\ FileGrants(last'.events) = {}
             /\ \A i \in Exchanges(last'.events) : last'.events[i].e # "refresh"
             /\ Writes(last'.events) = {}
             /\ files' = files
             /\ last'.result = "session"
                  => /\ sessions'[last'.sid].stored
                     /\ sessions'[last'.sid].config_file = p
                     /\ sessions'[last'.sid].access_token
                            = FileToken(files[p]).access_token
                     /\ sessions'[last'.sid].token.refresh_token
                            = FileToken(files[p]).refresh_token]_vars

(* C3's case: a session was rebuilt from a stored token with time to spare *)
C3_Witness ==
    /\ last.op = "get_session" /\ last.result = "session"
    /\ sessions[last.sid].stored
    /\ sessions[last.sid].token.expires_at > 0
    /\ Exchanges(last.events) = {}

(* C4: a session built from a stored token record whose expires_at less the *)
(* margin was already past when it was loaded never sends a service request *)
(* with that stored token: the refresh comes first.                         *)
C4_NoRequestWithExpiredStoredToken ==
    ( /\ last.op = "request"
      /\ sessions[last.sid].stored
      /\ sessions[last.sid].token.expires_at < 0 )
    => \A i \in 1..Len(last.events) :
          last.events[i].e = "request" => ~last.events[i].stored

Saves(p) ==
    /\ calls' = calls + 1
    /\ last'.op \in {"get_session", "request"}
    /\ \E i \in Writes(last'.events) : last'.events[i].path = p

(* C6 as claimed: every save leaves the credentials section and any other  *)
(* section of the file as they were in the file immediately before the     *)
(* save, whatever other writers did to the file in between.                *)
C6_SaveKeepsFileSections ==
    [][\A p \in Paths :
          Saves(p) => /\ files[p].kind = "ini" /\ files'[p].kind = "ini"
                      /\ OtherSections(files'[p].cfg) = OtherSections(files[p].cfg)]_vars

(* C6 as amended: every save writes the credentials section and any other  *)
(* section exactly as the saving session read them when it loaded the      *)
(* file (for the save that follows a fresh grant: as the file held them    *)
(* at the start of the call), and touches no other file.                   *)
C6_SaveKeepsLoadedSections ==
    [][\A p \in Paths :
          Saves(p) => /\ files'[p].kind = "ini"
                      /\ "gbdx_token" \in DOMAIN files'[p].cfg
                      /\ OtherSections(files'[p].cfg)
                            = IF last'.op = "request"
                              THEN OtherSections(sessions[last'.sid].cfg)
                              ELSE OtherSections(files[p].cfg)
                      /\ \A q \in Paths \ {p} : files'[q] = files[q]]_vars

(* C6's case: a refresh saved its token through the session's save_token *)
C6_Witness ==
    /\ last.op = "request"
    /\ \E i \in Writes(last.events) :
          last.events[i].path = sessions[last.sid].config_file
    /\ FileToken(files[sessions[last.sid].config_file]) = sessions[last.sid].token

(* C7: an operation whose grant or refresh exchange the auth server rejects *)
(* writes nothing: no write follows the rejection before another exchange  *)
(* is made, and when the rejected exchange is the call's last one every    *)
(* file is after the call what it was before.                              *)
C7_RejectionWritesNothing ==
    [][( /\ calls' = calls + 1
         /\ RejectedExchanges(last'.events) # {} )
       => /\ \A i \in RejectedExchanges(last'.events) :
                \A j \in Writes(last'.events) :
                    j > i => \E k \in Exchanges(last'.events) : i < k /\ k < j
          /\ (\A k \in Exchanges(last'.events) :
                    \E i \in RejectedExchanges(last'.events) : k <= i)
                => files' = files]_vars

(* C7's case: the refresh of a file-backed session was rejected *)
C7_Witness ==
    /\ last.op = "request"
    /\ last.err = "OAuth2Error"
    /\ sessions[last.sid].kind = "config"

(* C8: in every get_session call a rejected grant exchange is fatal: the    *)
(* caller receives the rejection, and after it no file is read and no       *)
(* other grant exchange is made.                                            *)
C8_RejectedGrantIsFatal ==
    last.op = "get_session"
    => \A i \in RejectedExchanges(last.events) :
          /\ last.result = "raise" /\ last.err = "OAuth2Error"
          /\ \A j \in Reads(last.events) \cup Grants(last.events) : j <= i

(* C9: with all four variables set and no explicit path, get_session reads  *)
(* and writes no file and returns nothing but an environment-backed         *)
(* session, whatever the auth server answers.                               *)
C9_FullEnvironTouchesNoFile ==
    ( /\ last.op = "get_session" /\ last.arg = NoPath
      /\ environ = FullEnviron )
    => /\ Reads(last.events) = {}
       /\ Writes(last.events) = {}
       /\ last.result = "session" => sessions[last.sid].kind = "env"

(* C10: with an explicit config file path get_session never reads the      *)
(* environment and opens no file but that one, and when that file cannot   *)
(* be read or parsed the call raises and hands no session to the caller.   *)
C10_ExplicitPathSoleSource ==
    [][\A p \in Paths :
          ( /\ IsCall("get_session") /\ last'.arg = p )
          => /\ \A i \in 1..Len(last'.events) :
                    /\ last'.events[i].e # "environ"
                    /\ last'.events[i].e \in {"isfile", "read", "write"}
                          => last'.events[i].path = p
             /\ \A q \in Paths \ {p} : files'[q] = files[q]
             /\ files[p].kind \in {"absent", "garbage"}
                  => /\ last'.result = "raise"
                     /\ last'.err \in {"RuntimeError", "ParsingError"}
                     /\ sessions' = sessions
                     /\ files' = files]_vars

(* C10's case: the explicit file is no ini file while the environment and  *)
(* the default file could both have served                                 *)
C10_Witness ==
    /\ last.op = "get_session" /\ last.arg = CustomPath
    /\ last.err = "ParsingError"
    /\ environ = FullEnviron
    /\ files[DefaultPath].kind = "ini"

----------------------------------------------------------------------------
(* C11: a get_session call without a path, made while an environment        *)
(* variable is missing and the default config file does not exist, raises   *)
(* the environment lookup's own error (KeyError), not an error about the    *)
(* file: it reads and writes no file and returns no session.                *)
C11_MissingEnvironNoFileRaisesKeyError ==
    [][(/\ IsCall("get_session")
        /\ last'.arg = NoPath
        /\ environ # FullEnviron
        /\ ~isfile(files, DefaultPath))
       => (/\ last'.result = "raise"
           /\ last'.err = "KeyError"
           /\ Reads(last'.events) = {}
           /\ Writes(last'.events) = {}
           /\ Grants(last'.events) = {}
           /\ sessions' = sessions
           /\ files' = files)]_vars

C11_Witness ==
    /\ last.op = "get_session"
    /\ last.arg = NoPath
    /\ environ # FullEnviron
    /\ ~isfile(files, DefaultPath)
    /\ last.err = "KeyError"
    /\ last.events = <<EvEnviron, EvIsFile(DefaultPath)>>

----------------------------------------------------------------------------
(* Combined API keys: every config file whose [gbdx] section holds an        *)
(* api_key and neither client_id nor client_secret, with and without a       *)
(* stored token, loaded through get_session(CustomPath)                      *)

KeyChars == {"a", "b", ":"}

ApiKeys == UNION { [1..n -> KeyChars] : n \in 1..MaxKeyLen }

ApiKeyFiles ==
    { IniFile([gbdx |-> [ApiKeyCreds EXCEPT !.api_key = k]]) : k \in ApiKeys }
    \cup { IniFile(WithToken([ApiKeyCreds EXCEPT !.api_key = k],
                             StoredToken(3000 * TicksPerSecond))) : k \in ApiKeys }

InitApiKey ==
    /\ now = StartTime * TicksPerSecond
    /\ environ = FullEnviron
    /\ \E c \in ApiKeyFiles :
          files = [p \in Paths |-> IF p = CustomPath THEN c ELSE NoFile]
    /\ sessions = [i \in SessionIds |-> NoSession]
    /\ last = [op |-> "none", arg |-> NoPath, sid |-> 0, at |-> now, result |-> "",
               err |-> "", events |-> <<>>]
    /\ calls = 0

LoadStep ==
    \E sid \in AssignableIds :
      \E fileResponse \in FileAnswers(CustomPath, Rejected) \cap PlainResponses :
        GetSession(sid, CustomPath, Rejected, fileResponse)

NextApiKey ==
    \/ LoadStep
    \/ Tick

SpecApiKey == InitApiKey /\ [][NextApiKey]_vars

(* The text of a key before and after its first ':' *)
FirstColon(key) ==
    CHOOSE i \in 1..Len(key) : key[i] = ":" /\ \A j \in 1..(i - 1) : key[j] # ":"

HasColon(key) == \E i \in 1..Len(key) : key[i] = ":"

(* C12: for every combined API key that contains a ':', _unpack_apikey      *)
(* gives the text before the first ':' as client_id and all the text after  *)
(* it, later ':' included, as client_secret; and a session loaded from a    *)
(* file that gives api_key only holds exactly that pair.                    *)
C12_ApiKeySplitsAtFirstColon ==
    LET key == files[CustomPath].cfg["gbdx"].api_key
        i == FirstColon(key)
        pair == [client_id |-> SubSeq(key, 1, i - 1),
                 client_secret |-> SubSeq(key, i + 1, Len(key))]
    IN  HasColon(key) =>
          /\ _unpack_apikey(key) = pair
          /\ credentials(files[CustomPath].cfg).ok
          /\ credentials(files[CustomPath].cfg).val.client_id = pair.client_id
          /\ credentials(files[CustomPath].cfg).val.client_secret = pair.client_secret
          /\ \A sid \in SessionIds :
                sessions[sid] # NoSession =>
                  /\ sessions[sid].client_id = pair.client_id
                  /\ sessions[sid].client_secret = pair.client_secret

C12_Witness ==
    /\ last.op = "get_session"
    /\ last.result = "session"
    /\ files[CustomPath].cfg["gbdx"].api_key = <<"a", ":", "b", ":">>
    /\ sessions[1] # NoSession
    /\ sessions[1].client_id = <<"a">>
    /\ sessions[1].client_secret = <<"b", ":">>

----------------------------------------------------------------------------
(* The save callback called again with the record the session holds, as a   *)
(* refresh that is answered with an unchanged record makes the session do   *)

SaveToken(sid) ==
    /\ calls < MaxCalls
    /\ calls' = calls + 1
    /\ sessions[sid] # NoSession
    /\ LET u == token_updater(sessions[sid], files, sessions[sid].token)
       IN  /\ sessions' = [sessions EXCEPT ![sid] = u.session]
           /\ files' = u.files
           /\ last' = [op |-> "save_token", arg |-> NoPath, sid |-> sid, at |-> now,
                       result |-> "", err |-> "", events |-> u.events]
    /\ UNCHANGED <<now, environ>>

SaveStep == \E sid \in SessionIds : SaveToken(sid)

NextSave ==
    \/ GetSessionStep
    \/ RequestStep
    \/ SaveStep
    \/ Tick

SpecSave == Init /\ [][NextSave]_vars

(* The call before this one was a save, by session sid, of the record the *)
(* session holds                                                          *)
JustSaved(sid) ==
    /\ last.op \in {"save_token", "request"}
    /\ last.sid = sid
    /\ sessions[sid] # NoSession
    /\ sessions[sid].kind = "config"
    /\ Writes(last.events) # {}
    /\ \E i \in 1..Len(last.events) : last.events[i] = EvUpdater(sessions[sid].token)

(* C13: when save_token is called twice in a row with the same record, the  *)
(* second call leaves the config file exactly as the first call left it:    *)
(* the other sections as the session holds them and one token section that  *)
(* holds that record.                                                       *)
C13_SecondSaveChangesNothing ==
    [][\A sid \in SessionIds :
          (IsCall("save_token") /\ last'.sid = sid /\ JustSaved(sid))
          => LET p == sessions[sid].config_file
             IN  /\ files' = files
                 /\ HasStoredToken(files'[p])
                 /\ DOMAIN files'[p].cfg["gbdx_token"] = {"json"}
                 /\ FileToken(files'[p]) = sessions[sid].token
                 /\ OtherSections(files'[p].cfg) = OtherSections(sessions[sid].cfg)]_vars

(* C13's case: a refresh saved its record and the next call saved the same *)
(* record again                                                            *)
C13_Witness ==
    /\ calls = 3
    /\ last.op = "save_token"
    /\ sessions[1] # NoSession
    /\ sessions[1].kind = "config"
    /\ ~sessions[1].stored
    /\ last.events = <<EvUpdater(sessions[1].token), EvWrite(CustomPath, "gbdx_token")>>
    /\ FileToken(files[CustomPath]) = sessions[1].token

----------------------------------------------------------------------------
(* C14: a session rebuilt from a stored token whose expiry lay more than    *)
(* the margin ahead when it was loaded, and still does, sends its next      *)
(* request with the stored access token and makes no refresh exchange.     *)
(* The session's record holds the time left less the margin at load, so    *)
(* more than MaxTicks of it means the margin is not reached in any state.  *)
C14_StoredTokenUsedUntilMargin ==
    [][\A sid \in SessionIds :
          (/\ IsCall("request")
           /\ last'.sid = sid
           /\ sessions[sid] # NoSession
           /\ sessions[sid].stored
           /\ sessions[sid].token.expires_at > MaxTicks)
          => last'.events = <<EvRequest(sessions[sid].token.access_token, TRUE)>>]_vars

----------------------------------------------------------------------------
(* The steps in which session sid is acquired from a config file or makes *)
(* an accepted refresh exchange                                           *)
Acquires(sid) ==
    /\ IsCall("get_session")
    /\ last'.sid = sid
    /\ last'.result = "session"
    /\ sessions'[sid].kind = "config"

Refreshes(sid) ==
    /\ IsCall("request")
    /\ last'.sid = sid
    /\ sessions'[sid].kind = "config"
    /\ \E i \in 1..Len(last'.events) : last'.events[i] = EvRefresh(TRUE)

----------------------------------------------------------------------------
(* C16: in every fresh grant made by session_from_config the Authorization  *)
(* header is 'Basic ' followed by base64('client_id:client_secret') of the  *)
(* client_id and client_secret resolved from the file, whether the file     *)
(* gives the two directly or only a combined api_key. The grant event holds *)
(* the text that follows 'Basic '.                                          *)
C16_GrantHeaderIsBase64OfIdAndSecret ==
    \A p \in Paths :
      ( /\ last.op = "get_session"
        /\ \E i \in Reads(last.events) : last.events[i].path = p
        /\ files[p].kind = "ini" )
      => \A i \in FileGrants(last.events) :
            LET cr == credentials(files[p].cfg).val
            IN  last.events[i].auth = b64encode(Colon(cr.client_id, cr.client_secret))

----------------------------------------------------------------------------
(* The events of one kind in a call's log *)
EventsOf(events, kind) == {i \in 1..Len(events) : events[i].e = kind}

(* C17: a request that finds the token expired makes exactly one refresh    *)
(* exchange; when the exchange is accepted the save callback is then called *)
(* once, with the new record, and only after it the request is sent, once,  *)
(* with the new access token; when the exchange is rejected the callback is *)
(* not called, the request is not sent, and session and files stay as they  *)
(* were.                                                                    *)
C17_RefreshThenSaveThenSend ==
    [][\A sid \in SessionIds :
          (/\ IsCall("request")
           /\ last'.sid = sid
           /\ sessions[sid] # NoSession
           /\ expired(sessions[sid], now))
          => LET ev == last'.events
             IN  /\ Cardinality(EventsOf(ev, "refresh")) = 1
                 /\ ev[1].e = "refresh"
                 /\ IF ev[1].ok
                    THEN /\ last'.result = "response"
                         /\ Len(ev) >= 3
                         /\ ev[2] = EvUpdater(sessions'[sid].token)
                         /\ EventsOf(ev, "token_updater") = {2}
                         /\ ev[Len(ev)] = EvRequest(sessions'[sid].token.access_token, FALSE)
                         /\ EventsOf(ev, "request") = {Len(ev)}
                         /\ sessions'[sid].token.expires_at > now
                    ELSE /\ last'.result = "raise"
                         /\ ev = <<EvRefresh(FALSE)>>
                         /\ sessions' = sessions
                         /\ files' = files]_vars

(* C17's case: an expired token was refreshed, saved and the request sent *)
C17_Witness ==
    /\ last.op = "request"
    /\ last.result = "response"
    /\ Len(last.events) >= 3
    /\ last.events[1] = EvRefresh(TRUE)
    /\ last.events[2] = EvUpdater(sessions[last.sid].token)
    /\ last.events[Len(last.events)].e = "request"

----------------------------------------------------------------------------
(* The endpoint helpers of core.py: one session.get or session.post, then   *)
(* raise_for_status, then the decoding of the body                          *)

EvRaiseForStatus(status) == [e |-> "raise_for_status", status |-> status]
EvDecode(as) == [e |-> "decode", as |-> as]

(* The service's answers: a status code and whether the body is JSON *)
HttpAnswers ==
    { [status |-> 200, json |-> TRUE], [status |-> 200, json |-> FALSE],
      [status |-> 404, json |-> TRUE], [status |-> 503, json |-> FALSE] }

(* Response.raise_for_status raises HTTPError for the 4xx and 5xx codes *)
raises_for_status(status) == status >= 400 /\ status < 600

Decoded(as, s, fs, events) ==
    [result |-> as, err |-> "", session |-> s, files |-> fs, events |-> events]

(* get_json with ret.json() evaluated before ret.raise_for_status() *)
get_json_decoding_first(session, fs, t, response, http) ==
    LET ret == request(session, fs, t, response)
    IN  IF ret.result = "raise" THEN ret
        ELSE IF ~http.json
        THEN Failed("ValueError", ret.session, ret.files,
                    ret.events \o <<EvDecode("json")>>)
        ELSE IF raises_for_status(http.status)
        THEN Failed("HTTPError", ret.session, ret.files,
                    ret.events \o <<EvDecode("json"), EvRaiseForStatus(http.status)>>)
        ELSE Decoded("json", ret.session, ret.files,
                     ret.events \o <<EvDecode("json"), EvRaiseForStatus(http.status)>>)

(* get_json, and through it get_s3creds, get_order_status, get_catalog_record *)
get_json(session, fs, t, response, http) ==
    LET ret == request(session, fs, t, response)
    IN  IF ret.result = "raise" THEN ret
        ELSE IF raises_for_status(http.status)
        THEN Failed("HTTPError", ret.session, ret.files,
                    ret.events \o <<EvRaiseForStatus(http.status)>>)
        ELSE IF ~http.json
        THEN Failed("ValueError", ret.session, ret.files,
                    ret.events \o <<EvRaiseForStatus(http.status), EvDecode("json")>>)
        ELSE Decoded("json", ret.session, ret.files,
                     ret.events \o <<EvRaiseForStatus(http.status), EvDecode("json")>>)

(* post_json: the same steps after session.post *)
post_json(session, fs, t, response, http) ==
    LET ret == request(session, fs, t, response)
    IN  IF ret.result = "raise" THEN ret
        ELSE IF raises_for_status(http.status)
        THEN Failed("HTTPError", ret.session, ret.files,
                    ret.events \o <<EvRaiseForStatus(http.status)>>)
        ELSE IF ~http.json
        THEN Failed("ValueError", ret.session, ret.files,
                    ret.events \o <<EvRaiseForStatus(http.status), EvDecode("json")>>)
        ELSE Decoded("json", ret.session, ret.files,
                     ret.events \o <<EvRaiseForStatus(http.status), EvDecode("json")>>)

(* get_thumbnail: cv2.imdecode gives an image, or None, and raises nothing *)
get_thumbnail(session, fs, t, response, http) ==
    LET ret == request(session, fs, t, response)
    IN  IF ret.result = "raise" THEN ret
        ELSE IF raises_for_status(http.status)
        THEN Failed("HTTPError", ret.session, ret.files,
                    ret.events \o <<EvRaiseForStatus(http.status)>>)
        ELSE Decoded("image", ret.session, ret.files,
                     ret.events \o <<EvRaiseForStatus(http.status), EvDecode("image")>>)

(* get_s3creds, get_order_status and get_catalog_record are one get_json *)
(* call each, on a url of their own                                      *)
JsonGetters == {"get_json", "get_s3creds", "get_order_status", "get_catalog_record"}

Helpers == JsonGetters \cup {"post_json", "get_thumbnail"}

(* One call of a helper on a session the caller holds *)
Helper(name, sid, response, http) ==
    /\ calls < MaxCalls
    /\ calls' = calls + 1
    /\ sessions[sid] # NoSession
    /\ LET r == CASE name \in JsonGetters ->
                       get_json(sessions[sid], files, now, response, http)
                  [] name = "post_json" ->
                       post_json(sessions[sid], files, now, response, http)
                  [] name = "get_thumbnail" ->
                       get_thumbnail(sessions[sid], files, now, response, http)
       IN  /\ sessions' = [sessions EXCEPT ![sid] = r.session]
           /\ files' = r.files
           /\ last' = Call(name, NoPath, sid, r)
    /\ UNCHANGED <<now, environ>>

HelperStep ==
    \E name \in Helpers, sid \in SessionIds :
      \E response \in RefreshAnswers(sid) \cap PlainResponses, http \in HttpAnswers :
        Helper(name, sid, response, http)

NextHelpers ==
    \/ GetSessionStep
    \/ HelperStep
    \/ Tick

(* The helpers take any session: the environment is complete and the *)
(* default file absent, so that a call without a path gives one      *)
InitHelpers ==
    /\ Init
    /\ environ = FullEnviron
    /\ files[DefaultPath] = NoFile

SpecHelpers == InitHelpers /\ [][NextHelpers]_vars

(* C18: a call of an endpoint helper sends at most one service request,     *)
(* exactly one unless the token refresh before it was rejected, and tests   *)
(* the status before it decodes: on a 4xx or 5xx answer it raises HTTPError *)
(* with nothing decoded and no second request, and whatever it decodes was  *)
(* answered with a status that raises nothing.                              *)
C18_OneRequestStatusBeforeDecode ==
    last.op \in Helpers =>
      LET ev == last.events
          sent == EventsOf(ev, "request")
          tested == EventsOf(ev, "raise_for_status")
          decoded == EventsOf(ev, "decode")
      IN  /\ Cardinality(sent) <= 1
          /\ (sent = {} => last.result = "raise" /\ last.err = "OAuth2Error"
                              /\ tested = {} /\ decoded = {})
          /\ (sent # {} => Cardinality(tested) = 1)
          /\ \A i \in tested :
                /\ \E j \in sent : j < i
                /\ raises_for_status(ev[i].status)
                      => /\ last.result = "raise"
                         /\ last.err = "HTTPError"
                         /\ decoded = {}
                         /\ i = Len(ev)
          /\ \A k \in decoded :
                \E i \in tested : i < k /\ ~raises_for_status(ev[i].status)

(* C18's case: the thumbnail helper was answered 404 *)
C18_Witness ==
    /\ last.op = "get_thumbnail"
    /\ last.result = "raise"
    /\ last.err = "HTTPError"
    /\ Len(last.events) >= 2
    /\ last.events[Len(last.events)] = EvRaiseForStatus(404)
    /\ last.events[Len(last.events) - 1].e = "request"

----------------------------------------------------------------------------
(* The steps of a session that was built from the environment: its         *)
(* acquisition and its requests                                            *)
EnvAcquires(sid) ==
    /\ IsCall("get_session")
    /\ last'.sid = sid
    /\ last'.result = "session"
    /\ sessions'[sid].kind = "env"

EnvRequests(sid) ==
    /\ IsCall("request")
    /\ last'.sid = sid
    /\ sessions[sid] # NoSession
    /\ sessions[sid].kind = "env"

(* C19: for a session built from the environment, neither the grant that   *)
(* builds it nor a later request, refresh included, reads or writes a      *)
(* file; the save callback of a refresh leaves the new record in the       *)
(* session and changes nothing else of it.                                 *)
C19_EnvironSessionWritesNoFile ==
    [][\A sid \in SessionIds :
          (EnvAcquires(sid) \/ EnvRequests(sid))
          => /\ files' = files
             /\ Writes(last'.events) = {}
             /\ Reads(last'.events) = {}
             /\ \A i \in EventsOf(last'.events, "token_updater") :
                    /\ sessions'[sid].token = last'.events[i].token
                    /\ sessions'[sid] =
                         [sessions[sid] EXCEPT
                            !.token = sessions'[sid].token,
                            !.access_token = sessions'[sid].access_token,
                            !._expires_at = sessions'[sid]._expires_at,
                            !.stored = sessions'[sid].stored]]_vars

(* C19's case: a session built from the environment refreshed its token *)
C19_Witness ==
    /\ last.op = "request"
    /\ last.result = "response"
    /\ sessions[last.sid].kind = "env"
    /\ last.events[1] = EvRefresh(TRUE)
    /\ last.events[2] = EvUpdater(sessions[last.sid].token)
    /\ \A p \in Paths : files[p].kind = "ini" => "gbdx_token" \notin DOMAIN files[p].cfg

====
